---- MODULE Spec2Model ----
(***************************************************************************)
(* FinGPT trading assistant: the data normalizer (market_data.py), the     *)
(* indicator engine and snapshot summarizer (technicals.py), the analysis  *)
(* client (fingpt_model.py) and the Streamlit session (main.py).           *)
(*                                                                         *)
(* Numbers.  A float cell is a record [nan, v]: either the NaN marker or   *)
(* the finite value v/8 (prices and volumes are counted in eighths, which  *)
(* binary floating point represents exactly, so that decimal formatting    *)
(* and its rounding are computed exactly).  A timestamp is [nat, t]: NaT   *)
(* or t hours after 2024-01-01 00:00.  A string is a TLA+ string; a column *)
(* label, which the code inspects character by character, is a sequence of *)
(* one-character strings.                                                  *)
(***************************************************************************)
EXTENDS Integers, Sequences, FiniteSets, TLC

VARIABLES
    df,          \* the OHLCV table (st.session_state.df in the UI session)
    df_tech,     \* the enriched table (st.session_state.df_tech)
    df_tech_again, \* what a second add_technical_indicators call on df returned
    raw_snap,    \* outcome of the last latest_snapshot_text call
    tech_snap,   \* outcome of the last technical_snapshot_text call
    raw,         \* the frame yf.download returned last (index column included)
    fetched,     \* outcome of the last fetch_ohlcv call
    ticker,      \* the sidebar's ticker text field
    backend,     \* the sidebar's backend choice
    credentials, \* the API keys set in st.secrets and in the environment
    df_ticker,   \* the ticker field's value when df was stored (history)
    prompt,      \* the market snapshot handed to FinGPT.analyse last
    reply,       \* what the backend answered to the last request
    analysis,    \* outcome of the last FinGPT construction and analyse call
    notice       \* what the last click showed: success, warning, error, result

engineVars == <<df, df_tech, df_tech_again, raw_snap, tech_snap>>
fetchVars == <<raw, fetched>>
uiVars == <<ticker, backend, credentials, df_ticker, prompt, reply, analysis, notice>>
vars == <<engineVars, fetchVars, uiVars>>

----------------------------------------------------------------------------
(* Bounds of the model *)

MaxBars == 16        \* longest table given to the indicator engine
MaxPattern == 2      \* longest cycle of close-price steps in an input table
MaxRows == 2         \* most rows of a raw frame given to the normalizer
MaxParts == 1        \* most parts of a Gemini candidate's content

----------------------------------------------------------------------------
(* Float cells, outcomes *)

NaN == [nan |-> TRUE, v |-> 0]
Num(x) == [nan |-> FALSE, v |-> x]

Abs(x) == IF x < 0 THEN -x ELSE x
Max(a, b) == IF a > b THEN a ELSE b
Min(a, b) == IF a < b THEN a ELSE b

\* a call that returned a string, and a call that raised
Returned(s) == [kind |-> "ok", text |-> s]
Raised(e) == [kind |-> e, text |-> ""]
NotCalled == [kind |-> "none", text |-> ""]

----------------------------------------------------------------------------
(* Python string formatting *)

Digit(d) == <<"0", "1", "2", "3", "4", "5", "6", "7", "8", "9">>[d + 1]

RECURSIVE NatStr(_)
NatStr(n) == IF n < 10 THEN Digit(n) ELSE NatStr(n \div 10) \o Digit(n % 10)

Pad(n, width) ==
    LET RECURSIVE Zeros(_)
        Zeros(k) == IF k <= 0 THEN "" ELSE "0" \o Zeros(k - 1)
    IN Zeros(width - Len(NatStr(n))) \o NatStr(n)

\* n/d (n >= 0, d > 0) rounded to the nearest integer, ties to even: the
\* rounding of a correctly rounded "%.kf" on an exactly represented value
RoundHalfEven(n, d) ==
    LET q == n \div d
        r == n % d
    IN IF 2 * r < d THEN q
       ELSE IF 2 * r > d THEN q + 1
       ELSE IF q % 2 = 0 THEN q ELSE q + 1

\* f"{x:.2f}" of the rational n/d
Fmt2fRat(n, d) ==
    LET h == RoundHalfEven(Abs(n) * 100, d)
    IN (IF n < 0 THEN "-" ELSE "") \o NatStr(h \div 100) \o "." \o Pad(h % 100, 2)

\* (a formatting that cuts the digits instead of rounding them)
Fmt2f_trunc(c) ==
    IF c.nan THEN "nan"
    ELSE LET h == (Abs(c.v) * 100) \div 8
         IN (IF c.v < 0 THEN "-" ELSE "") \o NatStr(h \div 100) \o "." \o Pad(h % 100, 2)

\* f"{x:.2f}" of a float cell
Fmt2f(c) == IF c.nan THEN "nan" ELSE Fmt2fRat(c.v, 8)

\* int(x): truncation toward zero
IntTrunc(c) == IF c.v >= 0 THEN c.v \div 8 ELSE -((-c.v) \div 8)

IntStr(i) == IF i < 0 THEN "-" \o NatStr(-i) ELSE NatStr(i)

\* Timestamp.date() rendered by str(): the calendar day of 2024, zero padded
MonthDays == <<31, 29, 31, 30, 31, 30, 31, 31, 30, 31, 30, 31>>

RECURSIVE MonthDay(_, _)
MonthDay(day, m) ==
    IF day < MonthDays[m] THEN <<m, day + 1>> ELSE MonthDay(day - MonthDays[m], m + 1)

DateStr(ts) ==
    IF ts.nat THEN "NaT"
    ELSE LET md == MonthDay(ts.t \div 24, 1)
         IN "2024-" \o Pad(md[1], 2) \o "-" \o Pad(md[2], 2)

----------------------------------------------------------------------------
(* market_data.latest_snapshot_text *)

\* (a renderer that answers an empty table with an empty text)
latest_snapshot_text_blank(d) ==
    IF Len(d) = 0 THEN Returned("")
    ELSE LET last == d[Len(d)]
         IN IF last.volume.nan THEN Raised("ValueError")
            ELSE Returned(
                "Latest data for the instrument on " \o DateStr(last.date) \o ":\n"
                \o "Open: " \o Fmt2f(last.open) \o ", High: " \o Fmt2f(last.high) \o ", "
                \o "Low: " \o Fmt2f(last.low) \o ", Close: " \o Fmt2f(last.close) \o ", "
                \o "Volume: " \o IntStr(IntTrunc(last.volume)))

latest_snapshot_text(d) ==
    IF Len(d) = 0 THEN Raised("IndexError")              \* df.iloc[-1]
    ELSE LET last == d[Len(d)]
         IN IF last.volume.nan THEN Raised("ValueError") \* int(nan)
            ELSE Returned(
                "Latest data for the instrument on " \o DateStr(last.date) \o ":\n"
                \o "Open: " \o Fmt2f(last.open) \o ", High: " \o Fmt2f(last.high) \o ", "
                \o "Low: " \o Fmt2f(last.low) \o ", Close: " \o Fmt2f(last.close) \o ", "
                \o "Volume: " \o IntStr(IntTrunc(last.volume)))

----------------------------------------------------------------------------
(* Numbers of the form a + b * 1e-9, written <<a, b>> with |b| < 10^9: the  *)
(* exact values that the epsilon guard of _rsi produces.                    *)

Sign(x) == IF x > 0 THEN 1 ELSE IF x < 0 THEN -1 ELSE 0

EpsAdd(x, y) == <<x[1] + y[1], x[2] + y[2]>>
EpsSub(x, y) == <<x[1] - y[1], x[2] - y[2]>>
EpsMul(k, x) == <<k * x[1], k * x[2]>>
EpsSign(x) == IF x[1] # 0 THEN Sign(x[1]) ELSE Sign(x[2])
EpsAbs(x) == IF EpsSign(x) < 0 THEN EpsMul(-1, x) ELSE x
EpsLeq(x, y) == EpsSign(EpsSub(x, y)) <= 0
EpsLess(x, y) == EpsSign(EpsSub(x, y)) < 0

----------------------------------------------------------------------------
(* Series utilities: the pandas operations technicals.py applies to a       *)
(* column.  A series is a sequence of float cells.                          *)

RECURSIVE SumOver(_, _)
SumOver(S, J) ==
    IF J = {} THEN 0
    ELSE LET j == CHOOSE k \in J : TRUE IN S[j].v + SumOver(S, J \ {j})

Window(i, w) == Max(1, i - w + 1)..i
Valid(S, i, w) == {j \in Window(i, w) : ~S[j].nan}

NaNRat == [nan |-> TRUE, n |-> 0, d |-> 1]

\* Series.rolling(window, min_periods).mean(): cell i is the rational n/d
\* (in the unit of S) over the non-NaN cells of the trailing window
rolling_mean(S, w, minp) ==
    [i \in 1..Len(S) |->
        LET J == Valid(S, i, w)
        IN IF Cardinality(J) < minp THEN NaNRat
           ELSE [nan |-> FALSE, n |-> SumOver(S, J), d |-> Cardinality(J)]]

\* Series.diff()
diff(S) ==
    [i \in 1..Len(S) |->
        IF i = 1 \/ S[i].nan \/ S[i - 1].nan THEN NaN
        ELSE Num(S[i].v - S[i - 1].v)]

\* (an exponential mean that waits for a full span of observations)
ewm_mean_warm(S) == [i \in 1..Len(S) |-> [nan |-> i < 20 \/ \A j \in 1..i : S[j].nan]]

\* Series.ewm(span, adjust=False).mean(): defined from the first non-NaN
\* observation onward; the smoothed value itself is not represented
ewm_mean(S) == [i \in 1..Len(S) |-> [nan |-> \A j \in 1..i : S[j].nan]]

\* difference of two such series
minus(A, B) == [i \in 1..Len(A) |-> [nan |-> A[i].nan \/ B[i].nan]]

\* Series.pct_change(): c[i] / c[i-1] - 1 as the rational n/d; a division
\* by zero gives inf (d = 0) or, for 0/0, NaN
pct_change(S) ==
    [i \in 1..Len(S) |->
        IF i = 1 \/ S[i].nan \/ S[i - 1].nan THEN NaNRat
        ELSE IF S[i - 1].v = 0 /\ S[i].v = 0 THEN NaNRat
        ELSE [nan |-> FALSE, n |-> S[i].v - S[i - 1].v, d |-> S[i - 1].v]]

\* (a deviation that waits for a full window, as without min_periods)
rolling_std_full(R, w, minp) ==
    [i \in 1..Len(R) |->
        LET J == {j \in Window(i, w) : ~R[j].nan /\ R[j].d # 0}
        IN [nan |-> Cardinality(J) < w]]

\* Series.rolling(window, min_periods).std() of a series of rationals:
\* defined when the window holds min_periods observations; the rolling
\* window takes an infinite cell for a missing one
rolling_std(R, w, minp) ==
    [i \in 1..Len(R) |->
        LET J == {j \in Window(i, w) : ~R[j].nan /\ R[j].d # 0}
        IN [nan |-> Cardinality(J) < minp]]

----------------------------------------------------------------------------
(* technicals._rsi *)

rsi_gain(c) == IF c.nan THEN NaN ELSE Num(Max(c.v, 0))       \* delta.clip(lower=0)

\* (the clipped losses without their negation)
rsi_loss_unsigned(c) == IF c.nan THEN NaN ELSE Num(Min(c.v, 0))
rsi_loss(c) == IF c.nan THEN NaN ELSE Num(-Min(c.v, 0))      \* -delta.clip(upper=0)

NaNEps == [nan |-> TRUE, num |-> <<0, 0>>, den |-> <<1, 0>>]

\* a quotient with its denominator made non-negative
Quot(num, den) ==
    IF EpsSign(den) < 0 THEN [nan |-> FALSE, num |-> EpsMul(-1, num), den |-> EpsMul(-1, den)]
    ELSE [nan |-> FALSE, num |-> num, den |-> den]

\* rs = avg_gain / (avg_loss + 1e-9); the complement 100 / (1 + rs)
rsi_complement(ag, al) ==
    LET rsNum == <<ag.n * al.d, 0>>
        rsDen == EpsMul(ag.d, <<al.n, 8 * al.d>>)
    IN Quot(EpsMul(100, rsDen), EpsAdd(rsDen, rsNum))

\* (the complement returned in place of the index)
rsi_value_complement(ag, al) ==
    IF ag.nan \/ al.nan THEN NaNEps ELSE rsi_complement(ag, al)

\* rsi = 100 - (100 / (1 + rs)), from the two rolling means (in eighths)
rsi_value(ag, al) ==
    IF ag.nan \/ al.nan THEN NaNEps
    ELSE LET c == rsi_complement(ag, al)
         IN IF EpsSign(c.den) = 0 /\ EpsSign(c.num) = 0 THEN NaNEps
            ELSE Quot(EpsSub(EpsMul(100, c.den), c.num), c.den)

rsi_avg_gain(S, period) ==
    LET delta == diff(S)
        gain == [i \in 1..Len(S) |-> rsi_gain(delta[i])]
    IN rolling_mean(gain, period, period)

rsi_avg_loss(S, period) ==
    LET delta == diff(S)
        loss == [i \in 1..Len(S) |-> rsi_loss(delta[i])]
    IN rolling_mean(loss, period, period)

_rsi(S, period) ==
    LET avg_gain == rsi_avg_gain(S, period)
        avg_loss == rsi_avg_loss(S, period)
    IN [i \in 1..Len(S) |-> rsi_value(avg_gain[i], avg_loss[i])]

----------------------------------------------------------------------------
(* technicals._macd and technicals.add_technical_indicators *)

_macd(S) ==
    LET ema_fast == ewm_mean(S)
        ema_slow == ewm_mean(S)
        macd == minus(ema_fast, ema_slow)
        signal_line == ewm_mean(macd)
        hist == minus(macd, signal_line)
    IN <<macd, signal_line, hist>>

\* The caller's frame and the frame the function builds are two objects
\* when out is a copy, one object when out is another name of the argument:
\* [source, out, shared] holds the cells of both and whether they are one.

\* (out bound to the argument itself, without a copy)
df_alias(d) == [source |-> d, out |-> d, shared |-> TRUE]

\* out = df.copy()
df_copy(d) == [source |-> d, out |-> d, shared |-> FALSE]

\* out[name] = column, for the nine derived columns: written into the frame
\* out names, and so into the caller's frame too when the two are one
assign_columns(fr, cols) ==
    LET written == [i \in 1..Len(fr.out) |-> cols[i] @@ fr.out[i]]
    IN [source |-> IF fr.shared THEN written ELSE fr.source,
        out |-> written, shared |-> fr.shared]

\* the call add_technical_indicators(df): the caller's frame after the call
\* (source) and the returned frame (out)
add_technical_indicators_call(d) ==
    LET fr == df_copy(d)
        close == [i \in 1..Len(fr.out) |-> fr.out[i].close]
        rsi == _rsi(close, 14)
        m == _macd(close)
        returns == pct_change(close)
        sma20 == rolling_mean(close, 20, 5)
        sma50 == rolling_mean(close, 50, 10)
        ema20 == ewm_mean(close)
        vol == rolling_std(returns, 20, 5)
    IN assign_columns(fr,
          [i \in 1..Len(d) |->
              [sma_20 |-> sma20[i], sma_50 |-> sma50[i], ema_20 |-> ema20[i],
               rsi_14 |-> rsi[i],
               macd |-> m[1][i], macd_signal |-> m[2][i], macd_hist |-> m[3][i],
               returns |-> returns[i], volatility_20 |-> vol[i]]])

\* the value add_technical_indicators returns
add_technical_indicators(d) == add_technical_indicators_call(d).out

----------------------------------------------------------------------------
(* technicals.technical_snapshot_text.  The digits of a formatted indicator *)
(* are not represented: a fragment carries its label and the format of its  *)
(* value.                                                                   *)

RECURSIVE Join(_, _)
Join(parts, sep) ==
    IF Len(parts) = 0 THEN ""
    ELSE IF Len(parts) = 1 THEN parts[1]
    ELSE parts[1] \o sep \o Join(Tail(parts), sep)

Part(cond, s) == IF cond THEN <<s>> ELSE <<>>

ema_part(row) == Part(~row.ema_20.nan, "EMA20=<.2f>")
macd_part(row) == Part(~row.macd.nan, "MACD=<.4f>, Signal=<.4f>, Hist=<.4f>")

technical_snapshot_parts(row) ==
    Part(~row.sma_20.nan, "SMA20=<.2f>")
    \o Part(~row.sma_50.nan, "SMA50=<.2f>")
    \o ema_part(row)
    \o Part(~row.rsi_14.nan, "RSI14=<.1f>")
    \o macd_part(row)
    \o Part(~row.volatility_20.nan, "20-day volatility=<.4f>")

technical_snapshot_text(dt) ==
    IF Len(dt) = 0 THEN Raised("IndexError")             \* df_tech.iloc[-1]
    ELSE Returned(Join(technical_snapshot_parts(dt[Len(dt)]), " | "))

----------------------------------------------------------------------------
(* The tables given to the engine: closes that follow a repeated cycle of   *)
(* steps from a start price, one bar per day, and a last bar whose other    *)
(* fields vary (missing values, fractions that the formatting rounds).      *)

Steps == {-3, 0, 1, 2}
StartClose == 100 * 8
Patterns == UNION {[1..k -> Steps] : k \in 1..MaxPattern}
Variants == {"plain", "frac", "nan_open", "nan_high", "nan_low", "nan_volume"}
StartHours == {24, 58 * 24 + 9}

RECURSIVE CloseAt(_, _)
CloseAt(p, i) == IF i = 1 THEN StartClose ELSE CloseAt(p, i - 1) + p[((i - 2) % Len(p)) + 1]

Stamp(t) == [nat |-> FALSE, t |-> t]
NaT == [nat |-> TRUE, t |-> 0]

Bar(t, c, variant) ==
    [date |-> Stamp(t),
     open |-> IF variant = "nan_open" THEN NaN ELSE IF variant = "frac" THEN Num(c - 5) ELSE Num(c),
     high |-> IF variant = "nan_high" THEN NaN ELSE IF variant = "frac" THEN Num(c + 5) ELSE Num(c),
     low |-> IF variant = "nan_low" THEN NaN ELSE IF variant = "frac" THEN Num(c - 7) ELSE Num(c),
     close |-> Num(c),
     volume |-> IF variant = "nan_volume" THEN NaN ELSE IF variant = "frac" THEN Num(8 * 1000 + 7) ELSE Num(8 * 1000)]

Table(p, n, variant, t0) ==
    [i \in 1..n |-> Bar(t0 + 24 * (i - 1), CloseAt(p, i), IF i = n THEN variant ELSE "plain")]

\* the single bar {2024-01-02, 100, 105, 99, 103, 1000}
ExampleTable ==
    <<[date |-> Stamp(24), open |-> Num(8 * 100), high |-> Num(8 * 105), low |-> Num(8 * 99),
       close |-> Num(8 * 103), volume |-> Num(8 * 1000)]>>

\* tables of the same cycles from a price near zero: their closes reach
\* zero and go below it
LowClose == 3
LowTable(p, n) ==
    [i \in 1..n |-> Bar(24 * i, LowClose + CloseAt(p, i) - StartClose, "plain")]

\* every cycle of closes with a plain last bar; every variant of the last
\* bar and every start on the closes of constant step (the renderers read
\* the last bar only, the indicators the closes only)
EngineTables ==
    {Table(p, n, "plain", 24) : p \in Patterns, n \in 0..MaxBars}
    \cup {Table(<<s>>, n, v, t0) : s \in Steps, n \in 0..MaxBars, v \in Variants, t0 \in StartHours}
    \cup {LowTable(p, n) : p \in Patterns, n \in 1..MaxBars}
    \cup {ExampleTable}

Some(rows) == [some |-> TRUE, rows |-> rows]
None == [some |-> FALSE, rows |-> <<>>]

----------------------------------------------------------------------------
(* Column labels and str.strip.  A text the code inspects by character is   *)
(* a sequence of one-character strings.                                     *)

UpperLetters == <<"A", "B", "C", "D", "E", "F", "G", "H", "I", "J", "K", "L", "M",
                  "N", "O", "P", "Q", "R", "S", "T", "U", "V", "W", "X", "Y", "Z">>
LowerLetters == <<"a", "b", "c", "d", "e", "f", "g", "h", "i", "j", "k", "l", "m",
                  "n", "o", "p", "q", "r", "s", "t", "u", "v", "w", "x", "y", "z">>

LowerChar(ch) ==
    IF \E k \in 1..26 : UpperLetters[k] = ch
    THEN LowerLetters[CHOOSE k \in 1..26 : UpperLetters[k] = ch] ELSE ch
UpperChar(ch) ==
    IF \E k \in 1..26 : LowerLetters[k] = ch
    THEN UpperLetters[CHOOSE k \in 1..26 : LowerLetters[k] = ch] ELSE ch

Lower(l) == [i \in 1..Len(l) |-> LowerChar(l[i])]
Upper(l) == [i \in 1..Len(l) |-> UpperChar(l[i])]

Whitespace == {" ", "\n", "\t"}

RECURSIVE LStrip(_)
LStrip(l) == IF Len(l) > 0 /\ l[1] \in Whitespace THEN LStrip(Tail(l)) ELSE l

RECURSIVE RStrip(_)
RStrip(l) ==
    IF Len(l) > 0 /\ l[Len(l)] \in Whitespace THEN RStrip(SubSeq(l, 1, Len(l) - 1)) ELSE l

\* (a strip that leaves the label as it is)
strip_nothing(l) == l

\* str.strip()
strip(l) == RStrip(LStrip(l))

lbl_Date == <<"D", "a", "t", "e">>
lbl_Datetime == <<"D", "a", "t", "e", "t", "i", "m", "e">>
lbl_Open == <<"O", "p", "e", "n">>
lbl_High == <<"H", "i", "g", "h">>
lbl_Low == <<"L", "o", "w">>
lbl_Close == <<"C", "l", "o", "s", "e">>
lbl_AdjClose == <<"A", "d", "j", " ", "C", "l", "o", "s", "e">>
lbl_Adj_Close == <<"A", "d", "j", "_", "C", "l", "o", "s", "e">>
lbl_AdjClose2 == <<"A", "d", "j", "C", "l", "o", "s", "e">>
lbl_Volume == <<"V", "o", "l", "u", "m", "e">>
lbl_adj_close == <<"a", "d", "j", "_", "c", "l", "o", "s", "e">>

\* rename_map of fetch_ohlcv, as (key, value) pairs
rename_map ==
    {<<lbl_Date, Lower(lbl_Date)>>, <<lbl_Datetime, Lower(lbl_Date)>>,
     <<Lower(lbl_Date), Lower(lbl_Date)>>,
     <<lbl_Open, Lower(lbl_Open)>>, <<lbl_High, Lower(lbl_High)>>,
     <<lbl_Low, Lower(lbl_Low)>>, <<lbl_Close, Lower(lbl_Close)>>,
     <<lbl_AdjClose, lbl_adj_close>>, <<lbl_Adj_Close, lbl_adj_close>>,
     <<lbl_AdjClose2, lbl_adj_close>>,
     <<lbl_Volume, Lower(lbl_Volume)>>}

\* rename_map.get(c, c)
rename(c) ==
    IF \E p \in rename_map : p[1] = c
    THEN (CHOOSE p \in rename_map : p[1] = c)[2] ELSE c

\* the label of a column after the strip and the rename
normalised(l) == rename(strip(l))

required ==
    <<Lower(lbl_Date), Lower(lbl_Open), Lower(lbl_High), Lower(lbl_Low),
      Lower(lbl_Close), Lower(lbl_Volume)>>

----------------------------------------------------------------------------
(* market_data.fetch_ohlcv.  A raw frame is [labels, rows]: labels maps each *)
(* column (named here by the slot the provider fills) to its label, and a    *)
(* row maps each column to a raw cell.  A raw numeric cell is a number, NaN, *)
(* a text that reads as a number, or any other text; a raw date is a         *)
(* timestamp or a text that is no date.                                      *)

RawNum(x) == [kind |-> "num", v |-> x]
RawNumText(x) == [kind |-> "numtext", v |-> x]
RawNaN == [kind |-> "nan", v |-> 0]
RawText == [kind |-> "text", v |-> 0]
RawStamp(t) == [kind |-> "stamp", v |-> t]

\* pd.to_numeric(col, errors="coerce")
to_numeric(c) == IF c.kind \in {"num", "numtext"} THEN Num(c.v) ELSE NaN

\* pd.to_datetime(col, errors="coerce")
to_datetime(c) == IF c.kind = "stamp" THEN Stamp(c.v) ELSE NaT

Columns(frame) == DOMAIN frame.labels

\* the column that carries a label after normalisation (labels are unique)
ColumnOf(frame, name) == CHOOSE s \in Columns(frame) : normalised(frame.labels[s]) = name

Missing(frame) ==
    {k \in 1..Len(required) : \A s \in Columns(frame) : normalised(frame.labels[s]) # required[k]}

Failed(e, m) == [kind |-> e, msg |-> m, rows |-> <<>>]
Fetched(rows) == [kind |-> "ok", msg |-> "", rows |-> rows]
NotFetched == [kind |-> "none", msg |-> "", rows |-> <<>>]

\* out = df[required] with the numeric and datetime coercions
coerced(frame) ==
    [i \in 1..Len(frame.rows) |->
        LET r == frame.rows[i]
            cell(k) == r[ColumnOf(frame, required[k])]
        IN [date |-> to_datetime(cell(1)), open |-> to_numeric(cell(2)),
            high |-> to_numeric(cell(3)), low |-> to_numeric(cell(4)),
            close |-> to_numeric(cell(5)), volume |-> to_numeric(cell(6))]]

\* (a cleaning that looks at the date only)
usable_date_only(row) == ~row.date.nat

\* out.dropna(subset=["date", "close"]) keeps the rows that pass
usable(row) == ~row.date.nat /\ ~row.close.nan

\* (an emptiness test that never fires)
frame_empty_never(frame) == FALSE

\* df is None or df.empty
frame_empty(frame) == Len(frame.rows) = 0 \/ Columns(frame) = {}

fetch_ohlcv(frame) ==
    IF frame_empty(frame) THEN Failed("ValueError", "No data returned")
    ELSE IF Missing(frame) # {} THEN Failed("ValueError", "missing required columns")
    ELSE LET out == SelectSeq(coerced(frame), usable)
         IN IF Len(out) = 0 THEN Failed("ValueError", "no usable closing prices")
            ELSE Fetched(out)

----------------------------------------------------------------------------
(* fingpt_model: _get_secret and FinGPT.  A text of the backend is a        *)
(* sequence of characters, or None.                                         *)

NoText == [none |-> TRUE, s |-> <<>>]
Text(l) == [none |-> FALSE, s |-> l]

\* x or ""
OrEmpty(x) == IF x.none THEN <<>> ELSE x.s

EndsWith(l, suffix) ==
    Len(l) >= Len(suffix) /\ SubSeq(l, Len(l) - Len(suffix) + 1, Len(l)) = suffix

Analysed(l) == [kind |-> "ok", msg |-> "", text |-> l]
AnalysisFailed(e, m) == [kind |-> e, msg |-> m, text |-> <<>>]
NotAnalysed == [kind |-> "none", msg |-> "", text |-> <<>>]

KeyName(b) == IF b = "openai" THEN "OPENAI_API_KEY" ELSE "GEMINI_API_KEY"

\* _get_secret: Streamlit secrets first, then the environment; TRUE when a
\* non-empty value is found
_get_secret(name, creds) == name \in creds.secrets \/ name \in creds.environ

\* FinGPT._analyse_openai on the reply r of chat.completions.create
_analyse_openai(r) ==
    IF r.kind = "APIConnectionError"
    THEN AnalysisFailed("RuntimeError", "Connection error while contacting OpenAI")
    ELSE IF r.kind = "error" THEN AnalysisFailed("RuntimeError", "OpenAI request failed")
    ELSE Analysed(strip(OrEmpty(r.content)))

RECURSIVE PartsText(_)
PartsText(parts) ==
    IF Len(parts) = 0 THEN <<>> ELSE OrEmpty(parts[1]) \o PartsText(Tail(parts))

SAFETY == <<"S", "A", "F", "E", "T", "Y">>

\* FinGPT._analyse_gemini on the reply r of generate_content
_analyse_gemini(r) ==
    IF r.kind = "error" THEN AnalysisFailed("RuntimeError", "Gemini request failed")
    ELSE IF r.candidates.none \/ Len(r.candidates.list) = 0
         THEN AnalysisFailed("RuntimeError", "Gemini response was empty")
    ELSE LET cand == r.candidates.list[1]
             text_out == IF cand.content.none THEN <<>> ELSE PartsText(cand.content.parts)
         IN IF ~cand.finish_reason.none /\ Len(cand.finish_reason.s) > 0
                /\ EndsWith(Upper(cand.finish_reason.s), SAFETY)
            THEN AnalysisFailed("RuntimeError", "Gemini blocked this request due to safety filters")
            ELSE IF strip(text_out) = <<>>
                 THEN AnalysisFailed("RuntimeError", "Gemini did not return any text")
                 ELSE Analysed(strip(text_out))

\* FinGPT(backend, ...) followed by FinGPT.analyse(...)
FinGPT_analyse(b, creds, r) ==
    IF ~_get_secret(KeyName(b), creds)
    THEN AnalysisFailed("RuntimeError", KeyName(b) \o " is not set")
    ELSE IF b = "openai" THEN _analyse_openai(r) ELSE _analyse_gemini(r)

\* the replies of the two backends
SomeText == <<"U", "p", ".">>
ReplyTexts == {NoText, Text(<<>>), Text(<<" ", "\n">>), Text(SomeText), Text(<<" ">> \o SomeText \o <<"\n">>)}

OpenAIReplies ==
    {[kind |-> "APIConnectionError"], [kind |-> "error"]}
    \cup {[kind |-> "completion", content |-> c] : c \in ReplyTexts}

FinishReasons ==
    {NoText, Text(<<"S", "T", "O", "P">>), Text(SAFETY), Text(<<"s", "a", "f", "e", "t", "y">>),
     Text(<<"F", "i", "n", "i", "s", "h", "R", "e", "a", "s", "o", "n", ".">> \o SAFETY)}

PartLists == UNION {[1..n -> {NoText, Text(<<" ">>), Text(SomeText)}] : n \in 0..MaxParts}

Contents == {[none |-> TRUE, parts |-> <<>>]} \cup {[none |-> FALSE, parts |-> ps] : ps \in PartLists}

Candidates == {[finish_reason |-> f, content |-> c] : f \in FinishReasons, c \in Contents}

GeminiReplies ==
    {[kind |-> "error"]}
    \cup {[kind |-> "response", candidates |-> [none |-> TRUE, list |-> <<>>]],
          [kind |-> "response", candidates |-> [none |-> FALSE, list |-> <<>>]]}
    \cup {[kind |-> "response", candidates |-> [none |-> FALSE, list |-> <<c>>]] : c \in Candidates}

Replies(b) == IF b = "openai" THEN OpenAIReplies ELSE GeminiReplies

NoReply == [kind |-> "none"]

----------------------------------------------------------------------------
(* The raw frames given to the normalizer: the provider's seven columns, one *)
(* of the required ones possibly relabelled or absent, and up to MaxRows     *)
(* rows in any order of dates, with cells that are missing or not numeric.   *)

Slots == {"c_date", "c_open", "c_high", "c_low", "c_close", "c_adj", "c_volume"}
RequiredSlots == Slots \ {"c_adj"}

DefaultLabel(s) ==
    CASE s = "c_date" -> lbl_Date
      [] s = "c_open" -> lbl_Open
      [] s = "c_high" -> lbl_High
      [] s = "c_low" -> lbl_Low
      [] s = "c_close" -> lbl_Close
      [] s = "c_adj" -> lbl_AdjClose
      [] s = "c_volume" -> lbl_Volume

LabelVariants(s) ==
    LET l == DefaultLabel(s)
    IN {l, Lower(l), Upper(l), <<" ">> \o l \o <<" ">>, <<" ">> \o Lower(l) \o <<"\t">>}
       \cup (IF s = "c_date" THEN {lbl_Datetime} ELSE {})

Layouts ==
    UNION {{[s \in Slots |-> IF s = f THEN l ELSE DefaultLabel(s)] : l \in LabelVariants(f)} :
              f \in RequiredSlots}
    \cup {[s \in Slots \ {f} |-> DefaultLabel(s)] : f \in RequiredSlots}

RowCases == {"num", "nan_close", "numtext_close", "text_volume", "nan_open"}
RawDates == {RawStamp(24), RawStamp(48), RawText}

RawRow(d, case, price) ==
    [c_date |-> d,
     c_open |-> IF case = "nan_open" THEN RawNaN ELSE RawNum(price),
     c_high |-> RawNum(price + 8),
     c_low |-> RawNum(price - 8),
     c_close |-> IF case = "nan_close" THEN RawNaN
                 ELSE IF case = "numtext_close" THEN RawNumText(price + 1)
                 ELSE RawNum(price + 1),
     c_adj |-> RawNum(price),
     c_volume |-> IF case = "text_volume" THEN RawText ELSE RawNum(8 * 1000)]

RawRows ==
    UNION {[1..n -> {RawRow(d, c, StartClose) : d \in RawDates, c \in RowCases}] : n \in 0..MaxRows}

Frame(labels, rows) ==
    [labels |-> labels,
     rows |-> [i \in 1..Len(rows) |-> [s \in DOMAIN labels |-> rows[i][s]]]]

RawFrames == {Frame(l, r) : l \in Layouts, r \in RawRows}

NoFrame == [labels |-> <<>>, rows |-> <<>>]

----------------------------------------------------------------------------
(* technicals.combine_market_and_technicals_text *)

combine_market_and_technicals_text(raw_snapshot, tech_snapshot, tk) ==
    "Instrument: " \o tk \o "\n\n"
    \o "Market snapshot:\n" \o raw_snapshot \o "\n\n"
    \o "Technical indicators (latest):\n" \o tech_snapshot \o "\n\n"
    \o "Use this data to provide trading analysis, including trend, "
    \o "momentum, key levels, and risk factors."

----------------------------------------------------------------------------
(* main.main: the Streamlit session.  Every interaction reruns the script;  *)
(* st.session_state keeps df and df_tech between reruns.  The period and    *)
(* interval selectors only choose what the provider returns, which is any   *)
(* frame of ProviderFrames.                                                 *)

default_ticker == "RELIANCE.NS"
Tickers == {default_ticker, "AAPL"}
Backends == {"openai", "gemini"}
Keys == {KeyName(b) : b \in Backends}

PriceOf(tk) == IF tk = default_ticker THEN StartClose ELSE 2 * StartClose

\* what yf.download may return for a ticker
ProviderFrames(tk) ==
    LET good(d) == RawRow(RawStamp(d), "num", PriceOf(tk))
        all == [s \in Slots |-> DefaultLabel(s)]
    IN {Frame(all, <<>>),
        Frame(all, <<good(24)>>),
        Frame(all, <<good(24), good(48)>>),
        Frame(all, <<good(24), RawRow(RawStamp(48), "text_volume", PriceOf(tk))>>),
        Frame(all, <<good(24), RawRow(RawStamp(48), "nan_open", PriceOf(tk))>>),
        Frame(all, <<RawRow(RawStamp(24), "nan_close", PriceOf(tk))>>),
        Frame([s \in Slots \ {"c_close"} |-> DefaultLabel(s)], <<good(24)>>)}

NoCredentials == [secrets |-> {}, environ |-> {}]
NotSent == [sent |-> FALSE, text |-> ""]
Sent(t) == [sent |-> TRUE, text |-> t]

SessionStart ==
    /\ ticker = default_ticker
    /\ backend = "openai"
    /\ credentials = NoCredentials
    /\ df_ticker = ""
    /\ prompt = NotSent
    /\ reply = NoReply
    /\ analysis = NotAnalysed
    /\ notice = "none"

Init ==
    /\ ticker = default_ticker
    /\ backend = "openai"
    /\ credentials \in {[secrets |-> a, environ |-> b] : a \in SUBSET Keys, b \in {{}, Keys}}
    /\ df = None
    /\ df_tech = None
    /\ df_tech_again = None
    /\ df_ticker = ""
    /\ raw_snap = NotCalled
    /\ tech_snap = NotCalled
    /\ raw = NoFrame
    /\ fetched = NotFetched
    /\ prompt = NotSent
    /\ reply = NoReply
    /\ analysis = NotAnalysed
    /\ notice = "none"

\* the ticker field is edited: a rerun without a click.  The script's
\* locals of the previous run (snapshots, analysis, messages) are gone.
EditTicker ==
    /\ \E tk \in Tickers \ {ticker} : ticker' = tk
    /\ raw_snap' = NotCalled /\ tech_snap' = NotCalled
    /\ raw' = NoFrame /\ fetched' = NotFetched
    /\ prompt' = NotSent /\ reply' = NoReply /\ analysis' = NotAnalysed
    /\ notice' = "none"
    /\ UNCHANGED <<df, df_tech, df_tech_again, df_ticker, backend, credentials>>

\* the backend radio is switched: a rerun without a click
SelectBackend ==
    /\ \E b \in Backends \ {backend} : backend' = b
    /\ raw_snap' = NotCalled /\ tech_snap' = NotCalled
    /\ raw' = NoFrame /\ fetched' = NotFetched
    /\ prompt' = NotSent /\ reply' = NoReply /\ analysis' = NotAnalysed
    /\ notice' = "none"
    /\ UNCHANGED <<df, df_tech, df_tech_again, df_ticker, ticker, credentials>>

\* (a handler that clears the stored table when the load fails)
LoadMarketData_clearing ==
    \E frame \in ProviderFrames(ticker) :
        LET res == fetch_ohlcv(frame)
            call == add_technical_indicators_call(res.rows)
        IN /\ raw' = frame
           /\ fetched' = res
           /\ IF res.kind = "ok"
              THEN /\ df' = Some(call.source)
                   /\ df_tech' = Some(call.out)
                   /\ df_ticker' = ticker
                   /\ notice' = "success"
              ELSE /\ df' = None
                   /\ UNCHANGED <<df_tech, df_ticker>>
                   /\ notice' = "error loading data"
           /\ raw_snap' = NotCalled /\ tech_snap' = NotCalled
           /\ prompt' = NotSent /\ reply' = NoReply /\ analysis' = NotAnalysed
           /\ UNCHANGED <<ticker, backend, credentials, df_tech_again>>

\* "Load Market Data" is clicked
LoadMarketData ==
    \E frame \in ProviderFrames(ticker) :
        LET res == fetch_ohlcv(frame)
            call == add_technical_indicators_call(res.rows)
        IN /\ raw' = frame
           /\ fetched' = res
           /\ IF res.kind = "ok"
              THEN /\ df' = Some(call.source)
                   /\ df_tech' = Some(call.out)
                   /\ df_ticker' = ticker
                   /\ notice' = "success"
              ELSE /\ UNCHANGED <<df, df_tech, df_ticker>>
                   /\ notice' = "error loading data"
           /\ raw_snap' = NotCalled /\ tech_snap' = NotCalled
           /\ prompt' = NotSent /\ reply' = NoReply /\ analysis' = NotAnalysed
           /\ UNCHANGED <<ticker, backend, credentials, df_tech_again>>

\* "Run Analysis" is clicked
RunAnalysis ==
    /\ raw' = NoFrame /\ fetched' = NotFetched
    /\ UNCHANGED <<df, df_tech, df_tech_again, df_ticker, ticker, backend, credentials>>
    /\ IF ~df.some \/ ~df_tech.some
       THEN /\ notice' = "warning"
            /\ raw_snap' = NotCalled /\ tech_snap' = NotCalled
            /\ prompt' = NotSent /\ reply' = NoReply /\ analysis' = NotAnalysed
       ELSE LET rs == latest_snapshot_text(df.rows)
                ts == technical_snapshot_text(df_tech.rows)
                combined == combine_market_and_technicals_text(rs.text, ts.text, ticker)
            IN /\ raw_snap' = rs
               /\ IF rs.kind # "ok"
                  THEN /\ tech_snap' = NotCalled
                       /\ notice' = "error running analysis"
                       /\ prompt' = NotSent /\ reply' = NoReply /\ analysis' = NotAnalysed
                  ELSE /\ tech_snap' = ts
                       /\ IF ts.kind # "ok"
                          THEN /\ notice' = "error running analysis"
                               /\ prompt' = NotSent /\ reply' = NoReply
                               /\ analysis' = NotAnalysed
                          ELSE IF ~_get_secret(KeyName(backend), credentials)
                          THEN /\ analysis' = FinGPT_analyse(backend, credentials, NoReply)
                               /\ notice' = "error running analysis"
                               /\ prompt' = NotSent /\ reply' = NoReply
                          ELSE \E r \in Replies(backend) :
                               /\ prompt' = Sent(combined)
                               /\ reply' = r
                               /\ analysis' = FinGPT_analyse(backend, credentials, r)
                               /\ notice' = IF analysis'.kind = "ok" THEN "result"
                                            ELSE "error running analysis"

Next ==
    \/ EditTicker
    \/ SelectBackend
    \/ LoadMarketData
    \/ RunAnalysis

Spec == Init /\ [][Next]_vars

----------------------------------------------------------------------------
(* The normalizer applied to a raw frame *)

FetchInit ==
    /\ raw \in RawFrames
    /\ fetched = NotFetched
    /\ df = None
    /\ df_tech = None
    /\ df_tech_again = None
    /\ raw_snap = NotCalled
    /\ tech_snap = NotCalled
    /\ SessionStart

CallFetchOhlcv ==
    /\ fetched = NotFetched
    /\ fetched' = fetch_ohlcv(raw)
    /\ UNCHANGED <<raw, engineVars, uiVars>>

FetchNext == CallFetchOhlcv

SpecFetch == FetchInit /\ [][FetchNext]_vars

----------------------------------------------------------------------------
(* The engine applied to a table: the three pure entry points of            *)
(* technicals.py and market_data.py, each called on the table once.         *)

EngineInit ==
    /\ df \in {Some(t) : t \in EngineTables}
    /\ df_tech = None
    /\ df_tech_again = None
    /\ raw_snap = NotCalled
    /\ tech_snap = NotCalled
    /\ raw = NoFrame
    /\ fetched = NotFetched
    /\ SessionStart

CallAddTechnicalIndicators ==
    /\ ~df_tech.some
    /\ LET call == add_technical_indicators_call(df.rows)
       IN /\ df' = Some(call.source)
          /\ df_tech' = Some(call.out)
    /\ UNCHANGED <<df_tech_again, raw_snap, tech_snap, fetchVars, uiVars>>

\* a second call on the same table, as the caller holds it after the
\* first, made before the table is rendered
CallAddTechnicalIndicatorsAgain ==
    /\ df_tech.some
    /\ ~df_tech_again.some
    /\ raw_snap = NotCalled /\ tech_snap = NotCalled
    /\ LET call == add_technical_indicators_call(df.rows)
       IN /\ df' = Some(call.source)
          /\ df_tech_again' = Some(call.out)
    /\ UNCHANGED <<df_tech, raw_snap, tech_snap, fetchVars, uiVars>>

CallLatestSnapshotText ==
    /\ raw_snap = NotCalled
    /\ raw_snap' = latest_snapshot_text(df.rows)
    /\ UNCHANGED <<df, df_tech, df_tech_again, tech_snap, fetchVars, uiVars>>

CallTechnicalSnapshotText ==
    /\ df_tech.some
    /\ tech_snap = NotCalled
    /\ tech_snap' = technical_snapshot_text(df_tech.rows)
    /\ UNCHANGED <<df, df_tech, df_tech_again, raw_snap, fetchVars, uiVars>>

EngineNext ==
    \/ CallAddTechnicalIndicators
    \/ CallAddTechnicalIndicatorsAgain
    \/ CallLatestSnapshotText
    \/ CallTechnicalSnapshotText

SpecEngine == EngineInit /\ [][EngineNext]_vars

----------------------------------------------------------------------------
(* Properties of the snapshot renderers (SpecEngine) *)

Bars == Len(df.rows)
LastBar == df.rows[Bars]
LastTech == df_tech.rows[Len(df_tech.rows)]
TechSnapCalled == tech_snap.kind # "none"
RawSnapCalled == raw_snap.kind # "none"

\* C1 as stated: on the enriched table of exactly 3 bars
\* technical_snapshot_text returns the empty string.
C1_AsStated == (Bars = 3 /\ TechSnapCalled) => tech_snap = Returned("")

\* C1, amended: on the enriched table of exactly 3 bars
\* technical_snapshot_text returns the EMA20 fragment and the MACD group
\* joined by " | ", and no SMA20, SMA50, RSI14 or volatility fragment.
C1_ThreeBars ==
    (Bars = 3 /\ TechSnapCalled) =>
        tech_snap = Returned("EMA20=<.2f> | MACD=<.4f>, Signal=<.4f>, Hist=<.4f>")

C1_Witness == Bars = 3 /\ tech_snap.kind = "ok"

LastBarFinite ==
    /\ Bars >= 1
    /\ ~LastBar.open.nan /\ ~LastBar.high.nan /\ ~LastBar.low.nan
    /\ ~LastBar.close.nan /\ ~LastBar.volume.nan

FracTable == Table(<<1>>, 1, "frac", 24)

\* C2 as stated: the bar {2024-01-02, 100, 105, 99, 103, 1000} renders on a
\* single line, the date colon followed by one space.
C2_AsStated ==
    (df.rows = ExampleTable /\ RawSnapCalled) =>
        raw_snap = Returned("Latest data for the instrument on 2024-01-02: Open: 100.00, High: 105.00, Low: 99.00, Close: 103.00, Volume: 1000")

\* C2, amended: latest_snapshot_text renders the last bar of every non-empty
\* table of finite values on two lines, the date colon followed by a newline:
\* prices rounded to 2 decimals, the volume cut to an integer.
C2_TwoLines ==
    /\ (LastBarFinite /\ RawSnapCalled) => raw_snap.kind = "ok"
    /\ (df.rows = ExampleTable /\ RawSnapCalled) =>
          raw_snap = Returned("Latest data for the instrument on 2024-01-02:\nOpen: 100.00, High: 105.00, Low: 99.00, Close: 103.00, Volume: 1000")
    /\ (df.rows = FracTable /\ RawSnapCalled) =>
          raw_snap = Returned("Latest data for the instrument on 2024-01-02:\nOpen: 99.38, High: 100.62, Low: 99.12, Close: 100.00, Volume: 1000")

C2_Witness == df.rows = FracTable /\ raw_snap.kind = "ok"

\* the error kind the normalizer uses for a table without bars
\* (market_data.py line 28)
EmptyTableError == "ValueError"

\* C3 as stated: on a table with zero bars latest_snapshot_text fails with
\* the empty-table error kind.
C3_AsStated == (Bars = 0 /\ RawSnapCalled) => raw_snap.kind = EmptyTableError

\* C3, amended: on a table with zero bars latest_snapshot_text fails, and
\* with the IndexError of the positional lookup, never returning a string.
C3_IndexError == (Bars = 0 /\ RawSnapCalled) => raw_snap = Raised("IndexError")

C3_Witness == Bars = 0 /\ raw_snap.kind = "IndexError"

\* C4: on a table with at least one bar neither renderer raises, whatever
\* is missing in the last row.
C4_NeverRaise ==
    Bars >= 1 => (raw_snap.kind \in {"none", "ok"} /\ tech_snap.kind \in {"none", "ok"})

----------------------------------------------------------------------------
(* Properties of the RSI (SpecEngine) *)

ClosesOf(rows) == [i \in 1..Len(rows) |-> rows[i].close]

Slope(rows, k) == \A i \in 2..Len(rows) : rows[i].close.v - rows[i - 1].close.v = k
Rising(rows) == \E k \in 1..3 : Slope(rows, k)

\* strictly between 99.999 and 100
NearHundred(c) ==
    /\ ~c.nan
    /\ EpsSign(c.den) > 0
    /\ EpsLess(c.num, EpsMul(100, c.den))
    /\ EpsLess(EpsMul(99999, c.den), EpsMul(1000, c.num))

\* the value 100 k / (k + 1e-9) of a slope of k eighths
GainOnly(c, k) ==
    /\ c.num[2] = 0
    /\ EpsMul(c.num[1], <<k, 8>>) = EpsMul(100 * k, c.den)

\* C9 as stated: n >= 14 rising bars give a defined rsi_14 near 100 at the
\* latest bar.
C9_AsStated ==
    (df_tech.some /\ Bars >= 14 /\ Rising(df.rows)) => NearHundred(LastTech.rsi_14)

\* C9, amended: n >= 15 bars rising with constant slope k give at the
\* latest bar a defined rsi_14 = 100 k / (k + 1e-9), just below 100.
C9_FromFifteen ==
    (df_tech.some /\ Bars >= 15) =>
        \A k \in 1..3 : Slope(df.rows, k) =>
            (NearHundred(LastTech.rsi_14) /\ GainOnly(LastTech.rsi_14, k))

C9_Witness ==
    df_tech.some /\ Bars >= 15 /\ Rising(df.rows) /\ ~LastTech.rsi_14.nan

InRange(c) ==
    /\ EpsSign(c.den) > 0
    /\ EpsLeq(<<0, 0>>, c.num)
    /\ EpsLeq(c.num, EpsMul(100, c.den))

\* C10: wherever rsi_14 is defined it lies in [0, 100], and the guarded
\* denominator avg_loss + 1e-9 is positive because avg_loss >= 0.
C10_RsiRange ==
    df_tech.some =>
        \A i \in 1..Bars :
            ~df_tech.rows[i].rsi_14.nan =>
                LET al == rsi_avg_loss(ClosesOf(df.rows), 14)[i]
                IN /\ InRange(df_tech.rows[i].rsi_14)
                   /\ al.n >= 0
                   /\ EpsSign(<<al.n, 8 * al.d>>) > 0

C10_Witness ==
    /\ df_tech.some
    /\ \E i \in 1..Bars :
          /\ ~df_tech.rows[i].rsi_14.nan
          /\ rsi_avg_loss(ClosesOf(df.rows), 14)[i].n > 0
          /\ rsi_avg_gain(ClosesOf(df.rows), 14)[i].n > 0

----------------------------------------------------------------------------
(* Properties of the indicator engine (SpecEngine) *)

GapFree(rows) == \A i \in 1..Len(rows) : ~rows[i].close.nan
NonZeroCloses(rows) == \A i \in 1..Len(rows) : rows[i].close.v # 0

\* a derived column is undefined before its warm-up index and defined from
\* it onward (indices count from 0)
WarmUpAt(rows, col, first) ==
    \A i \in 1..Len(rows) : rows[i][col].nan <=> (i - 1 < first)

WarmUps ==
    /\ Len(df_tech.rows) = Bars
    /\ WarmUpAt(df_tech.rows, "sma_20", 4)
    /\ WarmUpAt(df_tech.rows, "sma_50", 9)
    /\ WarmUpAt(df_tech.rows, "ema_20", 0)
    /\ WarmUpAt(df_tech.rows, "macd", 0)
    /\ WarmUpAt(df_tech.rows, "macd_signal", 0)
    /\ WarmUpAt(df_tech.rows, "macd_hist", 0)
    /\ WarmUpAt(df_tech.rows, "returns", 1)
    /\ WarmUpAt(df_tech.rows, "volatility_20", 5)
    /\ WarmUpAt(df_tech.rows, "rsi_14", 14)
    /\ Bars < 2 =>
          \A i \in 1..Bars :
              /\ df_tech.rows[i].returns.nan
              /\ df_tech.rows[i].rsi_14.nan
              /\ df_tech.rows[i].volatility_20.nan

\* C11 as stated: for every gap-free table each derived column is undefined
\* before its warm-up index and defined at every index from it onward
\* (sma_20 4, sma_50 9, ema_20 and the MACD trio 0, returns 1,
\* volatility_20 5, rsi_14 14); with fewer than 2 bars returns, rsi_14 and
\* volatility_20 are undefined on every row.
C11_AsStated == (df_tech.some /\ GapFree(df.rows)) => WarmUps

\* C11, amended: the same warm-up indices, for every gap-free table whose
\* closes are all different from zero (a zero close makes the next return
\* a division by zero, NaN or infinite, which the volatility window does
\* not count).
C11_WarmUpNonZero ==
    (df_tech.some /\ GapFree(df.rows) /\ NonZeroCloses(df.rows)) => WarmUps

C11_Witness ==
    /\ df_tech.some /\ GapFree(df.rows) /\ NonZeroCloses(df.rows)
    /\ Bars >= 15
    /\ ~LastTech.rsi_14.nan /\ ~LastTech.volatility_20.nan /\ ~LastTech.sma_50.nan

OhlcvColumns == {"date", "open", "high", "low", "close", "volume"}

\* a call of add_technical_indicators returns in this step
Returns == df_tech' # df_tech \/ df_tech_again' # df_tech_again

\* C12: add_technical_indicators never mutates its input: when a call
\* returns, the source table has the same columns (the six OHLCV columns,
\* no derived column) and the same cell values as before the call, and the
\* second call on the same input returns what the first returned.
C12_InputUnchanged ==
    [][Returns =>
          /\ df' = df
          /\ \A i \in 1..Len(df'.rows) : DOMAIN df'.rows[i] = OhlcvColumns
          /\ df_tech_again'.some => df_tech_again' = df_tech']_vars

C12_Witness == df_tech_again.some /\ Bars >= 15 /\ ~LastTech.rsi_14.nan

----------------------------------------------------------------------------
(* Properties of the normalizer (SpecFetch) *)

FetchCalled == fetched.kind # "none"
RawRowCount == Len(raw.rows)

\* the error kind the normalizer uses for an unresolvable required column
\* (market_data.py line 63)
SchemaError == "ValueError"

\* C5 as stated: a frame without rows fails with the empty-table kind, a
\* frame with an unresolvable required column with the schema kind, and
\* that kind is not the empty-table kind.
C5_AsStated ==
    /\ (FetchCalled /\ RawRowCount = 0) => fetched.kind = EmptyTableError
    /\ (FetchCalled /\ RawRowCount > 0 /\ Missing(raw) # {}) =>
          (fetched.kind = SchemaError /\ fetched.kind # EmptyTableError)

\* C5, amended: both failures are a ValueError, the same error kind, told
\* apart by the message only: "No data returned" for a frame without rows,
\* "missing required columns" for an unresolvable required column.
C5_SameKind ==
    /\ (FetchCalled /\ RawRowCount = 0) =>
          fetched = Failed("ValueError", "No data returned")
    /\ (FetchCalled /\ RawRowCount > 0 /\ Missing(raw) # {}) =>
          fetched = Failed("ValueError", "missing required columns")

C5_Witness ==
    /\ FetchCalled /\ RawRowCount > 0 /\ Missing(raw) # {}
    /\ fetched.kind = "ValueError"

\* the labels the normalizer knows for a canonical field: the keys of
\* rename_map that lead to it, and the canonical name itself
Aliases(name) == {p[1] : p \in {q \in rename_map : q[2] = name}} \cup {name}

\* a text without its surrounding blanks
Trimmed(l) ==
    LET inked == {i \in 1..Len(l) : l[i] \notin {" ", "\t", "\n"}}
    IN IF inked = {} THEN <<>>
       ELSE SubSeq(l, CHOOSE i \in inked : \A j \in inked : i <= j,
                      CHOOSE i \in inked : \A j \in inked : i >= j)

\* the column whose label, trimmed and compared without case, is an alias
MatchesIgnoringCase(l, name) == \E a \in Aliases(name) : Lower(Trimmed(l)) = Lower(a)
MatchesExactly(l, name) == \E a \in Aliases(name) : Trimmed(l) = a

NoMissingColumn == fetched.msg # "missing required columns"

\* C6 as stated: when every required field has a column whose label is an
\* alias after trimming and ignoring case, no column is reported missing.
C6_AsStated ==
    (FetchCalled /\ RawRowCount > 0
        /\ \A k \in 1..Len(required) :
              \E s \in Columns(raw) : MatchesIgnoringCase(raw.labels[s], required[k]))
    => NoMissingColumn

\* C6, amended: column resolution ignores surrounding whitespace but not
\* case: when every required field has a column whose trimmed label is
\* exactly an alias, no column is reported missing and each field is read
\* from that column.
C6_TrimOnly ==
    (FetchCalled /\ RawRowCount > 0
        /\ \A k \in 1..Len(required) :
              \E s \in Columns(raw) : MatchesExactly(raw.labels[s], required[k]))
    => /\ NoMissingColumn
       /\ \A k \in 1..Len(required) :
             MatchesExactly(raw.labels[ColumnOf(raw, required[k])], required[k])

C6_Witness ==
    /\ FetchCalled /\ RawRowCount > 0 /\ fetched.kind = "ok"
    /\ \E s \in Columns(raw) : raw.labels[s] # Trimmed(raw.labels[s])

Before(a, b) == a.t < b.t

\* C7 as stated: a returned table is ordered strictly increasing by
\* timestamp and every price and volume is a number.
C7_AsStated ==
    fetched.kind = "ok" =>
        /\ \A i \in 1..Len(fetched.rows) - 1 :
              Before(fetched.rows[i].date, fetched.rows[i + 1].date)
        /\ \A i \in 1..Len(fetched.rows) :
              LET r == fetched.rows[i]
              IN ~r.open.nan /\ ~r.high.nan /\ ~r.low.nan /\ ~r.close.nan /\ ~r.volume.nan

\* C7, amended: a returned table has at least one bar and every bar has a
\* valid timestamp and a numeric close; the bars are not sorted or
\* de-duplicated and open, high, low and volume may be NaN.
C7_DateAndClose ==
    fetched.kind = "ok" =>
        /\ Len(fetched.rows) >= 1
        /\ Len(fetched.rows) <= RawRowCount
        /\ \A i \in 1..Len(fetched.rows) :
              ~fetched.rows[i].date.nat /\ ~fetched.rows[i].close.nan

C7_Witness ==
    /\ fetched.kind = "ok"
    /\ Len(fetched.rows) < RawRowCount

----------------------------------------------------------------------------
(* Properties of the analysis client (Spec) *)

\* the text a reply carries: the completion's content, or the parts of the
\* first candidate
CarriedText(r) ==
    IF r.kind = "completion" THEN OrEmpty(r.content)
    ELSE IF r.candidates.none \/ Len(r.candidates.list) = 0 THEN <<>>
    ELSE IF r.candidates.list[1].content.none THEN <<>>
    ELSE PartsText(r.candidates.list[1].content.parts)

Answered == reply.kind \in {"completion", "response"}

EmptyResponseFailures ==
    {"Gemini response was empty", "Gemini did not return any text",
     "Gemini blocked this request due to safety filters"}

\* C8: for both backends a reply that carries no text makes analyse fail
\* (empty response, or the safety block that emptied it); an empty text is
\* never returned as the result.
C8_EmptyResponseFails ==
    /\ analysis.kind = "ok" => Len(analysis.text) > 0
    /\ (Answered /\ Trimmed(CarriedText(reply)) = <<>>) =>
          (analysis.kind = "RuntimeError" /\ analysis.msg \in EmptyResponseFailures)

----------------------------------------------------------------------------
(* Properties of the session (Spec) *)

\* C13: the instrument label in the prompt sent to the backend is the
\* ticker for which the table in session state was fetched.
C13_LabelMatchesData ==
    prompt.sent =>
        prompt.text = combine_market_and_technicals_text(raw_snap.text, tech_snap.text, df_ticker)

\* the backend was invoked, or the client constructed, in the last run
BackendInvoked == prompt.sent \/ reply # NoReply \/ analysis # NotAnalysed

TablesPaired ==
    /\ df.some <=> df_tech.some
    /\ df_tech.some =>
          /\ Len(df_tech.rows) = Len(df.rows)
          /\ \A i \in 1..Len(df.rows) :
                \A c \in OhlcvColumns : df_tech.rows[i][c] = df.rows[i][c]
          /\ df_tech.rows = add_technical_indicators(df.rows)
    /\ BackendInvoked => (df.some /\ df_tech.some)

\* C14: session_state.df is None iff session_state.df_tech is None, and
\* when set df_tech is the enrichment of that same df; a Load Market Data
\* click that fails leaves both unchanged; Run Analysis never invokes the
\* analysis backend while they are None.
C14_TablesPaired ==
    /\ []TablesPaired
    /\ [][notice' = "error loading data" => (df' = df /\ df_tech' = df_tech)]_vars
    /\ [][(~df.some \/ ~df_tech.some) => (~prompt'.sent /\ reply' = NoReply)]_vars

C14_Witness ==
    /\ notice = "error loading data"
    /\ df.some /\ df_tech.some
    /\ fetched.kind = "ValueError"

====
